---- MODULE Spec2Model ----
(***************************************************************************)
(* keep-up: mirror of a user's Google Tasks collection in the local Task   *)
(* table (todos/services.py, todos/serializers.py, todos/models.py).       *)
(*                                                                         *)
(* The remote provider is the environment: one task collection per linked  *)
(* account, every remote mutation stamps the record with a new revision    *)
(* (its etag and its `updated` time).  tasks.update is a full replace of   *)
(* the resource, tasks.list is called without showDeleted and so returns   *)
(* only records that exist.  A key that is absent from a provider payload  *)
(* is Null here (the service reads every key but "id" with dict.get).      *)
(*                                                                         *)
(* The Task model's primary key is external_id; where the code says `id`   *)
(* (the serializer's field list, local_task.id) or service.task(), it is   *)
(* read as the name it stands for: external_id, service.tasks().           *)
(*                                                                         *)
(* Each handler is one action; `last` records what the handler returned    *)
(* and the remote calls and local writes it made, in order.  In SpecConc   *)
(* two requests run at once, each remote call and each database statement  *)
(* being one step; `inflight` holds the local variables of each request.   *)
(* SpecViews follows the todo views where they differ from the service,    *)
(* SpecShared starts from accounts whose records carry the same ids,       *)
(* SpecPaging runs the paging loop of a pass one list request per step,    *)
(* under weak fairness of the pass.  A provider response always carries    *)
(* id, etag, title, status and position; notes and due only when the task  *)
(* has them.                                                               *)
(*                                                                         *)
(* SpecAgenda is the agenda app (agenda/views.py) with the timestamp       *)
(* normalizer (utils/parse_date_time_to_iso_format.py): `calendar` is the  *)
(* user's primary Google calendar, `events` the Event table, `clock` the   *)
(* time that datetime.now returns.  A date value is a record of day,       *)
(* minute of the day, microseconds and offset, so that conversion to UTC   *)
(* and the cut to milliseconds are computed; a text is that record with    *)
(* the zone suffix it is written with.                                     *)
(*                                                                         *)
(* SpecUsers is the users app (users/consumers.py): `users` is the User    *)
(* table and `delivered` keeps, for each id, the last message that a       *)
(* consumer has carried out.                                               *)
(***************************************************************************)
EXTENDS Integers, Sequences, FiniteSets, TLC

\* ---------------------------------------------------------------- bounds
MaxRev == 2         \* remote mutations in one behaviour
MaxPageSize == 2    \* items the provider puts on one page

\* ------------------------------------------------------------- value sets
Null == "null"
Absent == "absent"  \* a key the request does not carry
Owners == {"u1", "u2"}
\* u1 is the owner whose requests are followed: its requests meet the faults
\* and its account changes remotely.  u2 is the bystander whose records must
\* stay as they are: its account keeps its initial content and it syncs.
Requesters == {"u1"}
Ids == {1, 2, 3}
\* provider-assigned ids are unique across accounts
AccountIds(o) == IF o = "u1" THEN {1, 2} ELSE {3}
Notes == {Null}
TASK_STATUSES == {"needsAction", "completed"}

VARIABLES remote, rev, tasks, last, inflight, calendar, events, clock,
          users, delivered
\* the agenda app: the user's Google calendar, the Event table, the clock
agenda == <<calendar, events, clock>>
\* the users app: the User table and, for each id, the last message that a
\* consumer has carried out
accounts == <<users, delivered>>
vars == <<remote, rev, tasks, last, inflight, calendar, events, clock,
          users, delivered>>

\* ------------------------------------------------------ remote collection
NoTask == [exists |-> FALSE, title |-> Null, notes |-> Null, due |-> Null,
           status |-> Null, rev |-> 0]

Etag(r) == "e" \o ToString(r)
Stamp(r) == "ts" \o ToString(r)

\* the JSON resource the provider returns for a stored record
Wire(id, r) ==
    [id |-> id, etag |-> Etag(r.rev), updated |-> Stamp(r.rev),
     title |-> r.title, notes |-> r.notes, due |-> r.due, status |-> r.status,
     completed |-> IF r.status = "completed" THEN Stamp(r.rev) ELSE Null,
     deleted |-> FALSE]

\* ------------------------------------------------------------- Task table
NoRec == [exists |-> FALSE, owner |-> Null, etag |-> Null, title |-> Null,
          notes |-> Null, due |-> Null, status |-> Null, completed |-> Null,
          updated |-> Null, deleted |-> FALSE]

\* Task.objects.get(external_id=id, owner_id=user): NoRec is DoesNotExist
GetTask(tbl, id, user) ==
    IF tbl[id].exists /\ tbl[id].owner = user THEN tbl[id] ELSE NoRec

\* serializer.is_valid(): required CharFields may be neither null nor blank,
\* status is a choice field, the primary key is unique on create
is_valid(tbl, data, instance) ==
    /\ data.etag # Null
    /\ data.title \notin {Null, ""}
    /\ data.status \in TASK_STATUSES
    /\ (~instance.exists => ~tbl[data.external_id].exists)

SerializerWrite_LocalClock(base, data) ==
    [base EXCEPT !.exists = TRUE, !.owner = data.owner_id, !.etag = data.etag,
                 !.title = data.title, !.notes = data.notes, !.due = data.due,
                 !.status = data.status, !.deleted = data.deleted,
                 !.updated = IF base.updated = "now" THEN "later" ELSE "now"]

SerializerWrite_KeepsOwnStatus(base, data) ==
    [base EXCEPT !.exists = TRUE, !.owner = data.owner_id, !.etag = data.etag,
                 !.title = data.title, !.notes = data.notes, !.due = data.due,
                 !.status = IF base.exists THEN base.status ELSE data.status,
                 !.deleted = data.deleted]

SerializerWrite_TombstonesCompleted(base, data) ==
    [base EXCEPT !.exists = TRUE, !.owner = data.owner_id, !.etag = data.etag,
                 !.title = data.title, !.notes = data.notes, !.due = data.due,
                 !.status = data.status,
                 !.deleted = (data.status = "completed")]

\* the fields serializer.save() writes: Meta.read_only_fields
\* ("updated", "completed", ...) are dropped from validated_data
SerializerWrite(base, data) ==
    [base EXCEPT !.exists = TRUE, !.owner = data.owner_id, !.etag = data.etag,
                 !.title = data.title, !.notes = data.notes, !.due = data.due,
                 !.status = data.status, !.deleted = data.deleted]

\* _save_task_to_db: [tasks |-> the table afterwards, saved |-> a Task was returned]
save_task_to_db(tbl, google_task, instance, user_id, dbOk) ==
    LET task_data == [external_id |-> google_task.id, etag |-> google_task.etag,
                      title |-> google_task.title, updated |-> google_task.updated,
                      notes |-> google_task.notes, due |-> google_task.due,
                      status |-> google_task.status,
                      completed |-> google_task.completed,
                      deleted |-> google_task.deleted, owner_id |-> user_id]
        inst == IF instance.exists THEN instance
                ELSE GetTask(tbl, google_task.id, user_id)
    IN  IF is_valid(tbl, task_data, inst) /\ dbOk
        THEN [tasks |-> [tbl EXCEPT ![google_task.id] = SerializerWrite(inst, task_data)],
              saved |-> TRUE]
        ELSE [tasks |-> tbl, saved |-> FALSE]

\* ListTodoApiView.get_queryset: Task.objects.filter(owner_id=user_id), the
\* ids of the records that the listing returns
get_queryset(tbl, user_id) ==
    {i \in Ids : tbl[i].exists /\ tbl[i].owner = user_id}

\* ----------------------------------------------------------- Event table
EventIds == {1, 2}

\* no date-time text (None) and no datetime (None)
NoText == [day |-> 0, hour |-> 0, minute |-> 0, second |-> 0, milli |-> 0,
           zone |-> "none"]
NoDatetime == [day |-> 0, minute |-> 0, micro |-> 0, aware |-> FALSE, offset |-> 0,
               valid |-> FALSE]

NoCalEvent == [exists |-> FALSE, summary |-> Null, start |-> NoText, end |-> NoText,
               updated |-> 0]

NoEvent == [exists |-> FALSE, owner |-> Null, summary |-> Null,
            start_time |-> NoDatetime, end_time |-> NoDatetime, etag |-> Null,
            updated |-> Null]

\* the body of events.update, before one is built
NoBody == [summary |-> Null, start |-> NoText, end |-> NoText]

\* the agenda app at rest: the todo requests do not touch it
NoAgenda ==
    /\ calendar = [i \in EventIds |-> NoCalEvent]
    /\ events = [i \in EventIds |-> NoEvent]
    /\ clock = 0

\* ------------------------------------------------------------ User table
\* user ids as the identity service writes them (UUID texts)
UserIds == {"a", "b"}

NoUser == [exists |-> FALSE, name |-> Null, email |-> Null, vibe_points |-> 0]

\* a payload without the key "vibe_points"
NoPoints == -1

\* no message has been carried out for the id
NoMessage == [type |-> "none", id |-> Absent, name |-> Null, email |-> Null,
              vibe_points |-> NoPoints]

\* the users app at rest: the other requests do not touch it
NoUsers ==
    /\ users = [u \in UserIds |-> NoUser]
    /\ delivered = [u \in UserIds |-> NoMessage]

\* ------------------------------------------------------- handler results
\* update_data without any key
NoRequest == [title |-> Absent, notes |-> Absent, due |-> Absent, status |-> Absent]

\* what a handler returned, the calls it made and the request it served
Result(op, o, id, err, trace) ==
    [op |-> op, owner |-> o, id |-> id, err |-> err, trace |-> trace,
     request |-> NoRequest, body |-> NoBody,
     fetched |-> {}, skipped |-> {}, lost |-> {}, count |-> 0, again |-> FALSE]

\* ------------------------------------------------- requests being served
\* the worker threads that serve requests at the same time
Procs == {"w1", "w2"}

\* the local variables of a handler; pc is the statement it is about to run
Idle == [pc |-> "idle", op |-> "none", owner |-> Null, id |-> 0, ok |-> FALSE,
         overlap |-> FALSE, all_google_tasks |-> <<>>, current_local_ids |-> {},
         page_token |-> 0, obtained |-> 0,
         local_task |-> NoRec, update_data |-> NoRequest,
         google_task |-> NoTask, updated_task |-> NoTask]

Running(p) == inflight[p].pc \notin {"idle", "done"}

\* ------------------------------------------------------------------ Init
InitialTask == [exists |-> TRUE, title |-> "t1", notes |-> Null, due |-> "d1",
                status |-> "needsAction", rev |-> 0]

Init ==
    /\ remote \in [Owners -> [Ids -> {NoTask, InitialTask}]]
    /\ \A o \in Owners : \A i \in Ids \ AccountIds(o) : remote[o][i] = NoTask
    /\ rev = 0
    /\ tasks = [i \in Ids |-> NoRec]
    /\ last = Result("init", Null, 0, "none", <<>>)
    /\ inflight = [p \in Procs |-> Idle]
    /\ NoAgenda
    /\ NoUsers

\* ------------------------------------------- the account's owner, remotely
ExternalInsert(o, id) ==
    /\ rev < MaxRev
    /\ id \in AccountIds(o)
    /\ ~remote[o][id].exists
    /\ rev' = rev + 1
    /\ remote' = [remote EXCEPT ![o][id] = [InitialTask EXCEPT !.rev = rev + 1]]
    /\ last' = Result("external", o, id, "none", <<>>)
    /\ UNCHANGED tasks

ExternalDelete(o, id) ==
    /\ rev < MaxRev
    /\ remote[o][id].exists
    /\ rev' = rev + 1
    /\ remote' = [remote EXCEPT ![o][id] = NoTask]
    /\ last' = Result("external", o, id, "none", <<>>)
    /\ UNCHANGED tasks

ExternalComplete(o, id) ==
    /\ rev < MaxRev
    /\ remote[o][id].exists
    /\ rev' = rev + 1
    /\ remote' = [remote EXCEPT ![o][id] =
                     [@ EXCEPT !.rev = rev + 1,
                               !.status = IF @ = "completed" THEN "needsAction"
                                          ELSE "completed"]]
    /\ last' = Result("external", o, id, "none", <<>>)
    /\ UNCHANGED tasks

\* ---------------------------------------------------------------- faults
\* what goes wrong in one request: nothing, get_service() returns an error,
\* the remote call raises, the second remote call raises, the local save raises
Faults == {"none", "credentials", "remote", "db"}
ToggleFaults == Faults \cup {"remote2"}

\* ------------------------------------------------------------ create_task
\* task_data.title is Null when the request has none
CreateRequests == [title : {Null, "t1"}, notes : Notes]

\* except HttpError / except Exception around tasks.insert: (None, error_msg)
CreateFailed_LeavesDraft(o) ==
    /\ \E id \in AccountIds(o) :
          /\ ~tasks[id].exists
          /\ tasks' = [tasks EXCEPT ![id] =
                          [NoRec EXCEPT !.exists = TRUE, !.owner = o, !.title = "t1",
                                        !.status = "needsAction"]]
    /\ last' = Result("create", o, 0, "remote", <<"insert_failed">>)
    /\ UNCHANGED <<remote, rev>>

CreateFailed(o) ==
    /\ last' = Result("create", o, 0, "remote", <<"insert_failed">>)
    /\ UNCHANGED <<remote, rev, tasks>>

\* the request as the handler read it
Asked(task_data) ==
    [NoRequest EXCEPT !.title = task_data.title, !.notes = task_data.notes]

CreateInvalid_InsertsFirst(o, task_data) ==
    /\ rev < MaxRev
    /\ \E id \in AccountIds(o) :
          /\ ~remote[o][id].exists
          /\ remote' = [remote EXCEPT ![o][id] =
                           [InitialTask EXCEPT !.title = "", !.due = Null,
                                               !.rev = rev + 1]]
    /\ rev' = rev + 1
    /\ last' = [Result("create", o, 0, "validation", <<"insert">>)
                EXCEPT !.request = Asked(task_data)]
    /\ UNCHANGED tasks

CreateInvalid_StoresDraft(o, task_data) ==
    /\ \E id \in AccountIds(o) :
          /\ ~tasks[id].exists
          /\ tasks' = [tasks EXCEPT ![id] =
                          [NoRec EXCEPT !.exists = TRUE, !.owner = o, !.etag = "e0",
                                        !.title = "", !.status = "needsAction"]]
    /\ last' = [Result("create", o, 0, "validation", <<>>)
                EXCEPT !.request = Asked(task_data)]
    /\ UNCHANGED <<remote, rev>>

\* if not title: return None, "Task title is required"
CreateInvalid(o, task_data) ==
    /\ last' = [Result("create", o, 0, "validation", <<>>)
                EXCEPT !.request = Asked(task_data)]
    /\ UNCHANGED <<remote, rev, tasks>>

create_task(o) ==
    \E fault \in Faults :
    IF fault = "credentials" THEN
        /\ last' = Result("create", o, 0, "credentials", <<>>)
        /\ UNCHANGED <<remote, rev, tasks>>
    ELSE \E task_data \in CreateRequests :
        IF task_data.title \in {Null, ""} THEN
            /\ fault = "none"    \* returned before any call that could fail
            /\ CreateInvalid(o, task_data)
        ELSE IF fault = "remote" THEN CreateFailed(o)
        ELSE \E id \in AccountIds(o) :
            /\ rev < MaxRev
            /\ ~remote[o][id].exists
            /\ LET created == [exists |-> TRUE, title |-> task_data.title,
                               notes |-> task_data.notes, due |-> Null,
                               status |-> "needsAction", rev |-> rev + 1]
                   r == save_task_to_db(tasks, Wire(id, created), NoRec, o, fault # "db")
               IN  /\ remote' = [remote EXCEPT ![o][id] = created]
                   /\ rev' = rev + 1
                   /\ tasks' = r.tasks
                   /\ last' = [(IF r.saved
                                THEN Result("create", o, id, "none",
                                            <<"insert", "write">>)
                                ELSE Result("create", o, id, "persist",
                                            <<"insert", "write_failed">>))
                               EXCEPT !.request = Asked(task_data)]

\* ------------------------------------------------------------ update_task
UpdateRequests == [title : {Absent, "t2"}, notes : {Absent}, due : {Absent},
                   status : {Absent, "completed"}]

\* google_update: only the keys the request carries
UpdateBody(id, update_data) ==
    [id |-> id, title |-> update_data.title, notes |-> update_data.notes,
     due |-> update_data.due,
     status |-> update_data.status]

\* tasks.update replaces the resource: what the body leaves out is reset
Replaced(body, r) ==
    [exists |-> TRUE,
     title |-> IF body.title = Absent THEN "" ELSE body.title,
     notes |-> IF body.notes = Absent THEN Null ELSE body.notes,
     due |-> IF body.due = Absent THEN Null ELSE body.due,
     status |-> IF body.status = Absent THEN "needsAction" ELSE body.status,
     rev |-> r]

\* except HttpError / except Exception around tasks.update: (None, error_msg)
UpdateFailed_KeepsRequest(o, task_id) ==
    /\ tasks' = [tasks EXCEPT ![task_id].title = "t2"]
    /\ last' = Result("update", o, task_id, "remote", <<"update_failed">>)
    /\ UNCHANGED <<remote, rev>>

UpdateFailed(o, task_id) ==
    /\ last' = Result("update", o, task_id, "remote", <<"update_failed">>)
    /\ UNCHANGED <<remote, rev, tasks>>

update_task(o, task_id) ==
    LET local_task == GetTask(tasks, task_id, o) IN
    IF ~local_task.exists THEN
        /\ last' = Result("update", o, task_id, "not_found", <<>>)
        /\ UNCHANGED <<remote, rev, tasks>>
    ELSE \E fault \in Faults :
    IF fault = "credentials" THEN
        /\ last' = Result("update", o, task_id, "credentials", <<>>)
        /\ UNCHANGED <<remote, rev, tasks>>
    ELSE IF fault = "remote" \/ ~remote[o][task_id].exists
    THEN UpdateFailed(o, task_id)
    ELSE \E update_data \in UpdateRequests :
        /\ rev < MaxRev
        /\ LET updated == Replaced(UpdateBody(task_id, update_data), rev + 1)
               r == save_task_to_db(tasks, Wire(task_id, updated), local_task, o,
                                    fault # "db")
           IN  /\ remote' = [remote EXCEPT ![o][task_id] = updated]
               /\ rev' = rev + 1
               /\ tasks' = r.tasks
               /\ last' = [(IF r.saved
                            THEN Result("update", o, task_id, "none",
                                        <<"update", "write">>)
                            ELSE Result("update", o, task_id, "persist",
                                        <<"update", "write_failed">>))
                           EXCEPT !.request = update_data]

\* ------------------------------------------------- toggle_task_completion
Toggled_FromLocal(google_task, local_task, r) ==
    [google_task EXCEPT !.title = local_task.title, !.notes = local_task.notes,
                        !.due = local_task.due,
                        !.status = IF local_task.status = "completed"
                                   THEN "needsAction" ELSE "completed",
                        !.rev = r]

\* the object sent to tasks.update: the fetched one with the status flipped
\* from the local status
Toggled(google_task, local_task, r) ==
    [google_task EXCEPT !.status = IF local_task.status = "completed"
                                   THEN "needsAction" ELSE "completed",
                        !.rev = r]

\* except HttpError / except Exception around tasks.get and tasks.update
ToggleFailed(o, task_id, trace) ==
    /\ last' = Result("toggle", o, task_id, "remote", trace)
    /\ UNCHANGED <<remote, rev, tasks>>

toggle_task_completion(o, task_id) ==
    LET local_task == GetTask(tasks, task_id, o) IN
    IF ~local_task.exists THEN
        /\ last' = Result("toggle", o, task_id, "not_found", <<>>)
        /\ UNCHANGED <<remote, rev, tasks>>
    ELSE \E fault \in ToggleFaults :
    IF fault = "credentials" THEN
        /\ last' = Result("toggle", o, task_id, "credentials", <<>>)
        /\ UNCHANGED <<remote, rev, tasks>>
    ELSE IF fault = "remote" \/ ~remote[o][task_id].exists
    THEN ToggleFailed(o, task_id, <<"get_failed">>)
    ELSE IF fault = "remote2"
    THEN ToggleFailed(o, task_id, <<"get", "update_failed">>)
    ELSE
        /\ rev < MaxRev
        /\ LET updated == Toggled(remote[o][task_id], local_task, rev + 1)
               r == save_task_to_db(tasks, Wire(task_id, updated), local_task, o,
                                    fault # "db")
           IN  /\ remote' = [remote EXCEPT ![o][task_id] = updated]
               /\ rev' = rev + 1
               /\ tasks' = r.tasks
               \* returns (local_task, None) whatever the save returned
               /\ last' = Result("toggle", o, task_id, "none",
                                 IF r.saved THEN <<"get", "update", "write">>
                                 ELSE <<"get", "update", "write_failed">>)

\* ------------------------------------------------------------ delete_task
\* Task is a plain models.Model: delete() removes the row
LocalDelete(tbl, task_id) == [tbl EXCEPT ![task_id] = NoRec]

\* except HttpError / except Exception around tasks.delete: (False, error_msg)
DeleteFailed_DeletesRow(o, task_id) ==
    /\ tasks' = [tasks EXCEPT ![task_id] = NoRec]
    /\ last' = Result("delete", o, task_id, "remote", <<"delete_failed">>)
    /\ UNCHANGED <<remote, rev>>

DeleteFailed(o, task_id) ==
    /\ last' = Result("delete", o, task_id, "remote", <<"delete_failed">>)
    /\ UNCHANGED <<remote, rev, tasks>>

delete_task(o, task_id) ==
    LET local_task == GetTask(tasks, task_id, o) IN
    IF ~local_task.exists THEN
        /\ last' = Result("delete", o, task_id, "not_found", <<>>)
        /\ UNCHANGED <<remote, rev, tasks>>
    ELSE \E fault \in Faults :
    IF fault = "credentials" THEN
        /\ last' = Result("delete", o, task_id, "credentials", <<>>)
        /\ UNCHANGED <<remote, rev, tasks>>
    ELSE IF fault = "remote" \/ ~remote[o][task_id].exists
    THEN DeleteFailed(o, task_id)
    ELSE
        /\ rev < MaxRev
        /\ remote' = [remote EXCEPT ![o][task_id] = NoTask]
        /\ rev' = rev + 1
        /\ IF fault = "db"
           THEN /\ tasks' = tasks
                /\ last' = Result("delete", o, task_id, "persist",
                                  <<"delete", "local_delete_failed">>)
           ELSE /\ tasks' = LocalDelete(tasks, task_id)
                /\ last' = Result("delete", o, task_id, "none",
                                  <<"delete", "local_delete">>)

\* ------------------------------------------------------------- sync_tasks
\* the account's collection in the order tasks.list enumerates it
RECURSIVE Collection(_, _)
Collection(coll, from) ==
    IF from \notin Ids THEN <<>>
    ELSE (IF coll[from].exists THEN <<Wire(from, coll[from])>> ELSE <<>>)
         \o Collection(coll, from + 1)

\* one tasks.list response; a page token is the offset of the next item and
\* 0 stands for no token (None in the request, no nextPageToken in the response)
ListPage(items, page_token, page_size) ==
    LET upto == IF page_token + page_size < Len(items)
                THEN page_token + page_size ELSE Len(items)
    IN  [items |-> SubSeq(items, page_token + 1, upto),
         nextPageToken |-> IF upto < Len(items) THEN upto ELSE 0]

NumRequests(items, page_size) ==
    IF Len(items) = 0 THEN 1 ELSE (Len(items) + page_size - 1) \div page_size

FetchPages_FirstPageOnly(items, page_size, failAt, page_token, k, all_google_tasks) ==
    IF k = failAt THEN [ok |-> FALSE, all |-> all_google_tasks, requests |-> k]
    ELSE [ok |-> TRUE, all |-> ListPage(items, page_token, page_size).items,
          requests |-> k]

\* the while-True loop: request k raises when k = failAt
RECURSIVE FetchPages(_, _, _, _, _, _)
FetchPages(items, page_size, failAt, page_token, k, all_google_tasks) ==
    IF k = failAt THEN [ok |-> FALSE, all |-> all_google_tasks, requests |-> k]
    ELSE LET response == ListPage(items, page_token, page_size)
             all == all_google_tasks \o response.items
         IN  IF response.nextPageToken = 0
             THEN [ok |-> TRUE, all |-> all, requests |-> k]
             ELSE FetchPages(items, page_size, failAt, response.nextPageToken,
                             k + 1, all)

\* an item of a list response that carries no "id" key
NoId == 0
WithoutId(all, noId) ==
    [i \in 1..Len(all) |-> IF i = noId THEN [all[i] EXCEPT !.id = NoId] ELSE all[i]]

\* the for loop over all_google_tasks; a failed save is logged and skipped,
\* google_task["id"] raises KeyError on an item without the key
RECURSIVE UpsertAll(_, _, _, _, _, _)
UpsertAll(tbl, all, i, user_id, dbFail, skipped) ==
    IF i > Len(all) THEN [tasks |-> tbl, skipped |-> skipped, raised |-> FALSE]
    ELSE IF all[i].id = NoId THEN [tasks |-> tbl, skipped |-> skipped, raised |-> TRUE]
    ELSE LET Step(r) == UpsertAll(r.tasks, all, i + 1, user_id, dbFail,
                                  IF r.saved THEN skipped ELSE skipped \cup {all[i].id})
         IN  Step(save_task_to_db(tbl, all[i], NoRec, user_id, all[i].id \notin dbFail))

\* Task.objects.filter(owner_id=user_id, deleted=False).values_list("external_id")
current_local_ids(tbl, user_id) ==
    {i \in Ids : tbl[i].exists /\ tbl[i].owner = user_id /\ ~tbl[i].deleted}

MarkDeleted_NoIdFilter(tbl, ids, user_id) ==
    [i \in Ids |-> IF tbl[i].exists /\ tbl[i].owner = user_id
                   THEN [tbl[i] EXCEPT !.deleted = TRUE] ELSE tbl[i]]

\* Task.objects.filter(external_id__in=ids, owner_id=user_id).update(deleted=True)
MarkDeleted(tbl, ids, user_id) ==
    [i \in Ids |-> IF i \in ids /\ tbl[i].exists /\ tbl[i].owner = user_id
                   THEN [tbl[i] EXCEPT !.deleted = TRUE] ELSE tbl[i]]

Lists(n) == [i \in 1..n |-> "list"]

\* res is the result of a pass for user_id in which no remote call and no
\* local save raised (`again` marks a pass that directly follows such a pass)
CleanSync(res, user_id) ==
    res.op = "sync" /\ res.owner = user_id /\ res.err = "none" /\ res.lost = {}

\* except HttpError / except Exception around the paging loop: (0, error_msg)
SyncFailed_TombstonesPartial(o, fetch) ==
    /\ tasks' = MarkDeleted(tasks,
                    current_local_ids(tasks, o)
                        \ {fetch.all[i].id : i \in 1..Len(fetch.all)}, o)
    /\ last' = Result("sync", o, 0, "remote",
                      Lists(fetch.requests - 1) \o <<"list_failed">>)
    /\ UNCHANGED <<remote, rev>>

SyncFailed(o, fetch) ==
    /\ last' = Result("sync", o, 0, "remote",
                      Lists(fetch.requests - 1) \o <<"list_failed">>)
    /\ UNCHANGED <<remote, rev, tasks>>

\* except Exception around the upsert loop: (0, str(e)); what the loop saved
\* before the exception stays
SyncRaised(o, fetch, up) ==
    /\ tasks' = up.tasks
    /\ last' = [Result("sync", o, 0, "error",
                       Lists(fetch.requests) \o <<"upsert", "key_error">>)
                EXCEPT !.fetched = {fetch.all[i].id : i \in 1..Len(fetch.all)},
                       !.skipped = up.skipped]
    /\ UNCHANGED <<remote, rev>>

\* the inputs of a pass.  Page sizes above the length of the collection all
\* give one page; faults are injected into the passes of the followed owner,
\* at most one failing save in a pass.
PageSizes(items) ==
    {n \in 1..MaxPageSize : n = 1 \/ n <= Len(items)}
FailingRequests(o, items, page_size) ==
    IF o \in Requesters THEN 0..NumRequests(items, page_size) ELSE {0}
FailingSaves(o, google_task_ids) ==
    IF o \in Requesters THEN {{}} \cup {{i} : i \in google_task_ids} ELSE {{}}
ItemsWithoutId(o, dbFail, all) ==
    IF o \in Requesters /\ dbFail = {} THEN 0..Len(all) ELSE {0}

sync_tasks(o) ==
    \E fault \in (IF o \in Requesters THEN {"none", "credentials"} ELSE {"none"}) :
    IF fault = "credentials" THEN
        /\ last' = Result("sync", o, 0, "credentials", <<>>)
        /\ UNCHANGED <<remote, rev, tasks>>
    ELSE
        \E items \in {Collection(remote[o], 1)} :
        \E page_size \in PageSizes(items) :
        \E failAt \in FailingRequests(o, items, page_size) :
        \E fetch \in {FetchPages(items, page_size, failAt, 0, 1, <<>>)} :
            IF ~fetch.ok THEN SyncFailed(o, fetch)
            ELSE
                \E google_task_ids \in {{fetch.all[i].id : i \in 1..Len(fetch.all)}} :
                \E dbFail \in FailingSaves(o, google_task_ids) :
                \E noId \in ItemsWithoutId(o, dbFail, fetch.all) :
                \E up \in {UpsertAll(tasks, WithoutId(fetch.all, noId), 1, o, dbFail, {})} :
                IF up.raised THEN SyncRaised(o, fetch, up) ELSE
                LET ids_to_delete == current_local_ids(up.tasks, o) \ google_task_ids
                IN  /\ tasks' = MarkDeleted(up.tasks, ids_to_delete, o)
                    /\ last' = [Result("sync", o, 0, "none",
                                       Lists(fetch.requests) \o <<"upsert">>
                                       \o (IF ids_to_delete = {} THEN <<>>
                                           ELSE <<"tombstone">>))
                                EXCEPT !.fetched = google_task_ids,
                                       !.skipped = up.skipped,
                                       !.lost = dbFail,
                                       !.count = Len(fetch.all),
                                       !.again = CleanSync(last, o)]
                    /\ UNCHANGED <<remote, rev>>

\* A request that returns one of these errors has changed nothing but `last`:
\* what can follow it is what can follow the state it was made in, so requests
\* are explored from the states that the other requests leave.
Refused == {"not_found", "credentials", "validation", "remote", "attribute_error"}
Ready == last.err \notin Refused

Next ==
    \/ Ready /\ UNCHANGED <<inflight, agenda, accounts>> /\ \E o \in Requesters : create_task(o)
    \/ Ready /\ UNCHANGED <<inflight, agenda, accounts>> /\ \E o \in Requesters, id \in Ids : update_task(o, id)
    \/ Ready /\ UNCHANGED <<inflight, agenda, accounts>> /\ \E o \in Requesters, id \in Ids : toggle_task_completion(o, id)
    \/ Ready /\ UNCHANGED <<inflight, agenda, accounts>> /\ \E o \in Requesters, id \in Ids : delete_task(o, id)
    \/ Ready /\ UNCHANGED <<inflight, agenda, accounts>> /\ \E o \in Owners : sync_tasks(o)
    \/ Ready /\ UNCHANGED <<inflight, agenda, accounts>> /\ \E o \in Requesters, id \in Ids : ExternalInsert(o, id)
    \/ Ready /\ UNCHANGED <<inflight, agenda, accounts>> /\ \E o \in Requesters, id \in Ids : ExternalDelete(o, id)
    \/ Ready /\ UNCHANGED <<inflight, agenda, accounts>> /\ \E o \in Requesters, id \in Ids : ExternalComplete(o, id)

Spec == Init /\ [][Next]_vars

\* ===================================================== the todo views
\* todos/views.py serves the same requests without the service.  The list
\* view runs the same pass as sync_tasks.
ViewUpdateRequests == [title : {Absent, "t2"}, notes : {Absent},
                       due : {Absent, "d2"}, status : {Absent, "completed"}]

\* request.data.get(key, task.<key>)
GetOr(value, default) == IF value = Absent THEN default ELSE value

\* CreateTodoApiView.post: the request's notes and due go into the body only
\* when they are set, and the provider's response has the keys "notes" and
\* "due" only when the task has them
ViewCreateRequests == [title : {Null, "t1"}, notes : {Null, "n1"}, due : {Null, "d1"}]

\* created_task[key]: KeyError when the response has no such key
HasKey(value) == value # Null

CreateTodoApiView_post(o) ==
    \E fault \in Faults :
    IF fault = "credentials" THEN
        /\ last' = Result("create", o, 0, "credentials", <<>>)
        /\ UNCHANGED <<remote, rev, tasks>>
    ELSE \E data \in ViewCreateRequests :
    LET asked == [NoRequest EXCEPT !.title = data.title, !.notes = data.notes,
                                   !.due = data.due]
    IN
    IF data.title \in {Null, ""} THEN
        /\ fault = "none"    \* returned before any call that could fail
        /\ last' = [Result("create", o, 0, "validation", <<>>) EXCEPT !.request = asked]
        /\ UNCHANGED <<remote, rev, tasks>>
    ELSE IF fault = "remote" THEN
        /\ last' = Result("create", o, 0, "remote", <<"insert_failed">>)
        /\ UNCHANGED <<remote, rev, tasks>>
    ELSE \E id \in AccountIds(o) :
        /\ rev < MaxRev
        /\ ~remote[o][id].exists
        /\ LET created == [exists |-> TRUE, title |-> data.title, notes |-> data.notes,
                           due |-> data.due, status |-> "needsAction", rev |-> rev + 1]
               created_task == Wire(id, created)
               task_data == [external_id |-> created_task.id, etag |-> created_task.etag,
                             title |-> created_task.title, notes |-> created_task.notes,
                             status |-> created_task.status, due |-> created_task.due,
                             deleted |-> FALSE, owner_id |-> o]
           IN  /\ remote' = [remote EXCEPT ![o][id] = created]
               /\ rev' = rev + 1
               /\ IF ~HasKey(created_task.notes) \/ ~HasKey(created_task.due) THEN
                      \* except Exception: 500, the inserted task stays
                      /\ fault = "none"
                      /\ tasks' = tasks
                      /\ last' = [Result("create", o, id, "key_error",
                                         <<"insert", "key_error">>)
                                  EXCEPT !.request = asked]
                  ELSE IF is_valid(tasks, task_data, NoRec) /\ fault # "db" THEN
                      /\ tasks' = [tasks EXCEPT ![id] = SerializerWrite(NoRec, task_data)]
                      /\ last' = [Result("create", o, id, "none", <<"insert", "write">>)
                                  EXCEPT !.request = asked]
                  ELSE
                      /\ tasks' = tasks
                      /\ last' = [Result("create", o, id, "persist",
                                         <<"insert", "write_failed">>)
                                  EXCEPT !.request = asked]

\* UpdateTodoApiView.put
UpdateTodoApiView_put(o, task_id) ==
    LET task == GetTask(tasks, task_id, o) IN
    IF ~task.exists THEN
        /\ last' = Result("update", o, task_id, "not_found", <<>>)
        /\ UNCHANGED <<remote, rev, tasks>>
    ELSE \E fault \in Faults :
    IF fault = "credentials" THEN
        /\ last' = Result("update", o, task_id, "credentials", <<>>)
        /\ UNCHANGED <<remote, rev, tasks>>
    ELSE \E data \in ViewUpdateRequests :
    LET updated_title == GetOr(data.title, task.title)
        updated_notes == GetOr(data.notes, task.notes)
        updated_due == GetOr(data.due, task.due)
        updated_status == GetOr(data.status, task.status)
    IN
    \* updated_due.isoformat(): the request carries a string, the record may
    \* have no due date
    IF data.due # Absent \/ updated_due = Null THEN
        /\ fault = "none"    \* raised before any call that could fail
        /\ last' = Result("update", o, task_id, "attribute_error", <<>>)
        /\ UNCHANGED <<remote, rev, tasks>>
    ELSE IF fault = "remote" \/ ~remote[o][task_id].exists THEN
        /\ last' = Result("update", o, task_id, "remote", <<"update_failed">>)
        /\ UNCHANGED <<remote, rev, tasks>>
    ELSE
        /\ rev < MaxRev
        /\ LET updated_task == [id |-> task_id, title |-> updated_title,
                                notes |-> updated_notes, due |-> updated_due,
                                status |-> updated_status]
               updated_google_task == Replaced(updated_task, rev + 1)
           IN  /\ remote' = [remote EXCEPT ![o][task_id] = updated_google_task]
               /\ rev' = rev + 1
               /\ IF fault = "db"
                  THEN /\ tasks' = tasks
                       /\ last' = [Result("update", o, task_id, "persist",
                                          <<"update", "write_failed">>)
                                   EXCEPT !.request = data]
                  ELSE /\ tasks' = [tasks EXCEPT ![task_id] =
                                       [task EXCEPT
                                           !.title = updated_title,
                                           !.notes = updated_notes,
                                           !.due = updated_due,
                                           !.status = updated_status,
                                           !.updated =
                                               Wire(task_id, updated_google_task).updated]]
                       /\ last' = [Result("update", o, task_id, "none",
                                          <<"update", "write">>)
                                   EXCEPT !.request = data]

\* CompleteTodoApiView.put: Task.objects.get(id=task_id) has no owner filter
CompleteTodoApiView_put(o, task_id) ==
    \E fault \in ToggleFaults :
    IF fault = "credentials" THEN
        /\ last' = Result("toggle", o, task_id, "credentials", <<>>)
        /\ UNCHANGED <<remote, rev, tasks>>
    ELSE LET local_task_instance == tasks[task_id] IN
    IF ~local_task_instance.exists THEN
        /\ last' = Result("toggle", o, task_id, "not_found", <<>>)
        /\ UNCHANGED <<remote, rev, tasks>>
    ELSE IF fault = "remote" \/ ~remote[o][task_id].exists THEN
        \* 404 "not found or inaccessible"
        /\ last' = Result("toggle", o, task_id, "not_found", <<"get_failed">>)
        /\ UNCHANGED <<remote, rev, tasks>>
    ELSE IF fault = "remote2" THEN
        /\ last' = Result("toggle", o, task_id, "remote", <<"get", "update_failed">>)
        /\ UNCHANGED <<remote, rev, tasks>>
    ELSE
        /\ rev < MaxRev
        /\ LET updated_task == Toggled(remote[o][task_id], local_task_instance, rev + 1)
               r == save_task_to_db(tasks, Wire(task_id, updated_task),
                                    local_task_instance, o, fault # "db")
           IN  /\ remote' = [remote EXCEPT ![o][task_id] = updated_task]
               /\ rev' = rev + 1
               /\ tasks' = r.tasks
               /\ last' = IF r.saved
                          THEN Result("toggle", o, task_id, "none",
                                      <<"get", "update", "write">>)
                          ELSE Result("toggle", o, task_id, "persist",
                                      <<"get", "update", "write_failed">>)

NextViews ==
    \/ Ready /\ UNCHANGED <<inflight, agenda, accounts>> /\ \E o \in Requesters : CreateTodoApiView_post(o)
    \/ Ready /\ UNCHANGED <<inflight, agenda, accounts>> /\ \E o \in Requesters, id \in Ids : UpdateTodoApiView_put(o, id)
    \/ Ready /\ UNCHANGED <<inflight, agenda, accounts>> /\ \E o \in Requesters, id \in Ids : CompleteTodoApiView_put(o, id)
    \/ Ready /\ UNCHANGED <<inflight, agenda, accounts>> /\ \E o \in Owners : sync_tasks(o)
    \/ Ready /\ UNCHANGED <<inflight, agenda, accounts>> /\ \E o \in Requesters, id \in Ids : ExternalInsert(o, id)
    \/ Ready /\ UNCHANGED <<inflight, agenda, accounts>> /\ \E o \in Requesters, id \in Ids : ExternalDelete(o, id)
    \/ Ready /\ UNCHANGED <<inflight, agenda, accounts>> /\ \E o \in Requesters, id \in Ids : ExternalComplete(o, id)

SpecViews == Init /\ [][NextViews]_vars

\* ======================================= accounts that hold the same ids
\* external_id alone is the primary key of Task.  Two users whose accounts
\* hold a task under the same id (they linked the same Google account, or the
\* ids of the provider coincide) meet in one row of the table.
SharedIds == {1, 2}

InitShared ==
    /\ remote \in [Owners -> [Ids -> {NoTask, InitialTask}]]
    /\ \A o \in Owners : \A i \in Ids \ SharedIds : remote[o][i] = NoTask
    /\ rev = 0
    /\ tasks = [i \in Ids |-> NoRec]
    /\ last = Result("init", Null, 0, "none", <<>>)
    /\ inflight = [p \in Procs |-> Idle]
    /\ NoAgenda
    /\ NoUsers

NextShared ==
    \/ Ready /\ UNCHANGED <<inflight, agenda, accounts>> /\ \E o \in Owners : sync_tasks(o)
    \/ Ready /\ UNCHANGED <<inflight, agenda, accounts>> /\ \E o \in Requesters, id \in Ids : toggle_task_completion(o, id)
    \/ Ready /\ UNCHANGED <<inflight, agenda, accounts>> /\ \E o \in Requesters, id \in Ids : CompleteTodoApiView_put(o, id)
    \/ Ready /\ UNCHANGED <<inflight, agenda, accounts>> /\ \E o \in Owners, id \in Ids : ExternalComplete(o, id)

SpecShared == InitShared /\ [][NextShared]_vars

\* ============================================================ the agenda
\* agenda/views.py mirrors the user's primary Google calendar in the Event
\* table.  A remote mutation advances the clock by one minute; the response
\* of events.update carries the times that the request sent.
MaxTicks == 1       \* remote calendar mutations in one behaviour

\* ---------------------------------------------------- date and time texts
\* An ISO 8601 text is held by its parts: a bare date, a date-time without
\* offset, a date-time with a UTC offset (minutes east); "invalid" is a text
\* that datetime.fromisoformat rejects, "none" is None and "absent" a key that
\* the request does not carry.  Seconds are 00 throughout.
MinutesPerDay == 1440
RawShape(shape) == [shape |-> shape, day |-> 0, minute |-> 0, micro |-> 0, offset |-> 0]
RawDates ==
    [shape : {"date"}, day : {2}, minute : {0}, micro : {0}, offset : {0}]
    \cup [shape : {"naive"}, day : {2}, minute : {0, 1380},
          micro : {0, 1500}, offset : {0}]
    \cup [shape : {"offset"}, day : {1, 2}, minute : {120, 1350},
          micro : {0}, offset : {120, -90}]
    \cup {RawShape("invalid")}

\* datetime.fromisoformat(raw_date): NoDatetime stands for ValueError; a
\* datetime is aware when the text has an offset
fromisoformat(raw_date) ==
    IF raw_date.shape = "invalid" THEN NoDatetime
    ELSE [day |-> raw_date.day,
          minute |-> IF raw_date.shape = "date" THEN 0 ELSE raw_date.minute,
          micro |-> IF raw_date.shape = "date" THEN 0 ELSE raw_date.micro,
          aware |-> raw_date.shape = "offset",
          offset |-> IF raw_date.shape = "offset" THEN raw_date.offset ELSE 0,
          valid |-> TRUE]

ToUtc_KeepsWallClock(dt_obj) == [dt_obj EXCEPT !.aware = TRUE, !.offset = 0]

\* dt_obj.replace(tzinfo=timezone.utc) on a naive datetime,
\* dt_obj.astimezone(timezone.utc) on an aware one
ToUtc(dt_obj) ==
    IF ~dt_obj.aware THEN [dt_obj EXCEPT !.aware = TRUE, !.offset = 0]
    ELSE LET total == dt_obj.day * MinutesPerDay + dt_obj.minute - dt_obj.offset
         IN  [dt_obj EXCEPT !.day = total \div MinutesPerDay,
                            !.minute = total % MinutesPerDay,
                            !.offset = 0]

\* dt_obj.strftime('%Y-%m-%dT%H:%M:%S.%f')[:-3] + 'Z': the text by its parts,
\* the fraction cut to three digits
strftime(dt_obj) ==
    [day |-> dt_obj.day, hour |-> dt_obj.minute \div 60,
     minute |-> dt_obj.minute % 60, second |-> 0,
     milli |-> dt_obj.micro \div 1000, zone |-> "Z"]

\* datetime.now(timezone.utc) at tick t of the clock
utcnow(t) == [day |-> 3, minute |-> t, micro |-> 0, aware |-> TRUE, offset |-> 0,
              valid |-> TRUE]

\* parse_date_time_to_iso_format(raw_date); NoText is None
parse_date_time_to_iso_format(raw_date, t) ==
    IF raw_date.shape = "none" THEN strftime(utcnow(t))
    ELSE IF ~fromisoformat(raw_date).valid THEN NoText
    ELSE strftime(ToUtc(fromisoformat(raw_date)))

\* DateTimeField: the datetime that a text of the provider is stored as
to_python(text) ==
    [day |-> text.day, minute |-> text.hour * 60 + text.minute,
     micro |-> text.milli * 1000, aware |-> TRUE, offset |-> 0, valid |-> TRUE]

\* event.start_time.isoformat()
isoformat(dt_obj) ==
    [day |-> dt_obj.day, hour |-> dt_obj.minute \div 60,
     minute |-> dt_obj.minute % 60, second |-> 0,
     milli |-> dt_obj.micro \div 1000, zone |-> "+00:00"]

\* ------------------------------------------------------------ the calendar
InitialEvent ==
    [exists |-> TRUE, summary |-> "s1",
     start |-> [day |-> 1, hour |-> 10, minute |-> 0, second |-> 0, milli |-> 0,
                zone |-> "Z"],
     end |-> [day |-> 1, hour |-> 11, minute |-> 0, second |-> 0, milli |-> 0,
              zone |-> "Z"],
     updated |-> 0]

InitAgenda ==
    /\ remote = [o \in Owners |-> [i \in Ids |-> NoTask]]
    /\ rev = 0
    /\ tasks = [i \in Ids |-> NoRec]
    /\ last = Result("init", Null, 0, "none", <<>>)
    /\ inflight = [p \in Procs |-> Idle]
    /\ calendar \in [EventIds -> {NoCalEvent, InitialEvent}]
    /\ events = [i \in EventIds |-> NoEvent]
    /\ clock = 0
    /\ NoUsers

ExternalEventInsert(id) ==
    /\ clock < MaxTicks
    /\ ~calendar[id].exists
    /\ clock' = clock + 1
    /\ calendar' = [calendar EXCEPT ![id] = [InitialEvent EXCEPT !.updated = clock + 1]]
    /\ last' = Result("external", Null, id, "none", <<>>)
    /\ UNCHANGED events

ExternalEventDelete(id) ==
    /\ clock < MaxTicks
    /\ calendar[id].exists
    /\ clock' = clock + 1
    /\ calendar' = [calendar EXCEPT ![id] = NoCalEvent]
    /\ last' = Result("external", Null, id, "none", <<>>)
    /\ UNCHANGED events

\* ------------------------------------------------------- ListEventsApiView
\* Event.objects.filter(id=event["id"], owner_id=user_id).first()
GetEvent(tbl, id, user) ==
    IF tbl[id].exists /\ tbl[id].owner = user THEN tbl[id] ELSE NoEvent

InsertMissing_Refreshes(tbl, cal, user_id) ==
    [i \in EventIds |->
        IF cal[i].exists
        THEN [exists |-> TRUE, owner |-> user_id, summary |-> cal[i].summary,
              start_time |-> to_python(cal[i].start),
              end_time |-> to_python(cal[i].end),
              etag |-> Etag(cal[i].updated), updated |-> Stamp(cal[i].updated)]
        ELSE tbl[i]]

\* the for loop of _sync_with_google_calendar: an event that has no row of
\* the user is inserted (when no row has its id), one that has is left alone
InsertMissing(tbl, cal, user_id) ==
    [i \in EventIds |->
        IF cal[i].exists /\ ~tbl[i].exists
        THEN [exists |-> TRUE, owner |-> user_id, summary |-> cal[i].summary,
              start_time |-> to_python(cal[i].start),
              end_time |-> to_python(cal[i].end),
              etag |-> Etag(cal[i].updated), updated |-> Stamp(cal[i].updated)]
        ELSE tbl[i]]

\* get_queryset with ?sync=true|false: _sync_with_google_calendar returns
\* nothing and catches every exception, the listing follows in any case
ListEventsApiView_get(o) ==
    \E sync_with_google \in BOOLEAN :
    \E fault \in (IF sync_with_google THEN {"none", "credentials", "remote"}
                  ELSE {"none"}) :
        /\ events' = IF sync_with_google /\ fault = "none"
                     THEN InsertMissing(events, calendar, o) ELSE events
        /\ last' = [Result("event_list", o, 0, "none",
                           IF ~sync_with_google THEN <<>>
                           ELSE IF fault = "credentials" THEN <<"credentials_failed">>
                           ELSE IF fault = "remote" THEN <<"list_failed">>
                           ELSE <<"list", "insert">>)
                    EXCEPT !.fetched = {i \in EventIds : GetEvent(events', i, o).exists}]
        /\ UNCHANGED <<calendar, clock>>

\* ------------------------------------------------------ UpdateEventApiView
EventUpdateRequests ==
    [summary : {Absent, "s2"}, start_time : {RawShape("absent")} \cup RawDates,
     end_time : {RawShape("absent"),
                 [shape |-> "naive", day |-> 2, minute |-> 1380, micro |-> 0,
                  offset |-> 0]}]

\* request.data.get(key): None when the request has no such key
Get(value) == IF value.shape = "absent" THEN RawShape("none") ELSE value

\* "dateTime": parse_date_time_to_iso_format(request.data.get(key))
\*                 or event.<key>.isoformat()
DateTimeOr(value, stored, t) ==
    LET parsed == parse_date_time_to_iso_format(Get(value), t)
    IN  IF parsed # NoText THEN parsed ELSE isoformat(stored)

UpdateEventApiView_put(o, event_id) ==
    LET event == GetEvent(events, event_id, o) IN
    IF ~event.exists THEN
        /\ last' = Result("event_update", o, event_id, "not_found", <<>>)
        /\ UNCHANGED <<calendar, events, clock>>
    ELSE \E fault \in Faults :
    IF fault = "credentials" THEN
        /\ last' = Result("event_update", o, event_id, "credentials", <<>>)
        /\ UNCHANGED <<calendar, events, clock>>
    ELSE IF fault = "remote" \/ ~calendar[event_id].exists THEN
        \* events.update raises whatever the body holds
        /\ last' = Result("event_update", o, event_id, "remote", <<"update_failed">>)
        /\ UNCHANGED <<calendar, events, clock>>
    ELSE \E data \in EventUpdateRequests :
    LET event_body == [summary |-> GetOr(data.summary, event.summary),
                       start |-> DateTimeOr(data.start_time, event.start_time, clock),
                       end |-> DateTimeOr(data.end_time, event.end_time, clock)]
    IN
        /\ clock < MaxTicks
        /\ clock' = clock + 1
        /\ calendar' = [calendar EXCEPT ![event_id] =
                           [exists |-> TRUE, summary |-> event_body.summary,
                            start |-> event_body.start, end |-> event_body.end,
                            updated |-> clock + 1]]
        /\ IF fault = "db"
           THEN /\ events' = events
                /\ last' = [Result("event_update", o, event_id, "persist",
                                   <<"update", "write_failed">>)
                            EXCEPT !.request = data, !.body = event_body]
           ELSE /\ events' = [events EXCEPT ![event_id] =
                                 [event EXCEPT
                                     !.summary = event_body.summary,
                                     !.start_time = to_python(event_body.start),
                                     !.end_time = to_python(event_body.end),
                                     !.updated = Stamp(clock + 1),
                                     !.etag = Etag(clock + 1)]]
                /\ last' = [Result("event_update", o, event_id, "none",
                                   <<"update", "write">>)
                            EXCEPT !.request = data, !.body = event_body]

todos == <<remote, rev, tasks, inflight>>

NextAgenda ==
    \/ Ready /\ UNCHANGED <<todos, accounts>> /\ \E o \in Requesters : ListEventsApiView_get(o)
    \/ Ready /\ UNCHANGED <<todos, accounts>> /\ \E o \in Requesters, id \in EventIds : UpdateEventApiView_put(o, id)
    \/ Ready /\ UNCHANGED <<todos, accounts>> /\ \E id \in EventIds : ExternalEventInsert(id)
    \/ Ready /\ UNCHANGED <<todos, accounts>> /\ \E id \in EventIds : ExternalEventDelete(id)

SpecAgenda == InitAgenda /\ [][NextAgenda]_vars

\* ============================================== two requests at a time
\* Nothing in the service or the views takes a lock or opens a transaction:
\* the statements of two requests interleave freely.  A step here is one
\* remote call or one database statement (the paging loop and the upsert
\* loop are taken as one step each, which only leaves interleavings out).
Begin(p, op, o, id) ==
    [Idle EXCEPT !.op = op, !.owner = o, !.id = id,
                 !.overlap = \E q \in Procs \ {p} : Running(q)]

\* p starts serving a request while the others go on
Started(p, locals) ==
    [q \in Procs |-> IF q = p THEN locals
                     ELSE IF Running(q) THEN [inflight[q] EXCEPT !.overlap = TRUE]
                     ELSE inflight[q]]

Finished(p, ok) == [inflight EXCEPT ![p].pc = "done", ![p].ok = ok]

ItemIds(all) == {all[i].id : i \in 1..Len(all)}

\* sync_tasks, statement by statement
SyncFetch(p, o) ==
    /\ inflight[p].pc = "idle"
    /\ inflight' = Started(p,
          [Begin(p, "sync", o, 0) EXCEPT
              !.pc = "upsert",
              !.all_google_tasks =
                  FetchPages(Collection(remote[o], 1), MaxPageSize, 0, 0, 1, <<>>).all])
    /\ UNCHANGED <<remote, rev, tasks, last>>

SyncUpsert(p) ==
    /\ inflight[p].pc = "upsert"
    /\ tasks' = UpsertAll(tasks, inflight[p].all_google_tasks, 1,
                          inflight[p].owner, {}, {}).tasks
    /\ inflight' = [inflight EXCEPT ![p].pc = "read_ids"]
    /\ UNCHANGED <<remote, rev, last>>

SyncReadIds(p) ==
    /\ inflight[p].pc = "read_ids"
    /\ inflight' = [inflight EXCEPT
          ![p].pc = "tombstone",
          ![p].current_local_ids = current_local_ids(tasks, inflight[p].owner)]
    /\ UNCHANGED <<remote, rev, tasks, last>>

SyncTombstone(p) ==
    /\ inflight[p].pc = "tombstone"
    /\ LET me == inflight[p]
           google_task_ids == ItemIds(me.all_google_tasks)
           ids_to_delete == me.current_local_ids \ google_task_ids
       IN  /\ tasks' = MarkDeleted(tasks, ids_to_delete, me.owner)
           /\ last' = [Result("sync", me.owner, 0, "none",
                              <<"list", "upsert">>
                              \o (IF ids_to_delete = {} THEN <<>> ELSE <<"tombstone">>))
                       EXCEPT !.fetched = google_task_ids,
                              !.count = Len(me.all_google_tasks)]
    /\ inflight' = Finished(p, TRUE)
    /\ UNCHANGED <<remote, rev>>

\* the account changes while requests are served; the provider does not hand
\* out an id a second time
ConcExternalInsert(o, id) ==
    /\ ~tasks[id].exists
    /\ ExternalInsert(o, id)
    /\ UNCHANGED inflight

ConcExternalDelete(o, id) ==
    /\ ExternalDelete(o, id)
    /\ UNCHANGED inflight

\* update_task, statement by statement; a request whose record is not found
\* returns at once and is not followed here
ConcUpdateRequests == [title : {"t2"}, notes : {Absent}, due : {Absent},
                       status : {Absent}]

UpdateLookup(p, o, task_id) ==
    /\ inflight[p].pc = "idle"
    /\ GetTask(tasks, task_id, o).exists
    /\ \E update_data \in ConcUpdateRequests :
          inflight' = Started(p,
              [Begin(p, "update", o, task_id) EXCEPT
                  !.pc = "update_remote",
                  !.local_task = GetTask(tasks, task_id, o),
                  !.update_data = update_data])
    /\ UNCHANGED <<remote, rev, tasks, last>>

UpdateRemote(p) ==
    /\ inflight[p].pc = "update_remote"
    /\ LET me == inflight[p] IN
       IF ~remote[me.owner][me.id].exists
       THEN /\ inflight' = Finished(p, FALSE)
            /\ last' = Result("update", me.owner, me.id, "remote", <<"update_failed">>)
            /\ UNCHANGED <<remote, rev, tasks>>
       ELSE /\ rev < MaxRev
            /\ LET updated == Replaced(UpdateBody(me.id, me.update_data), rev + 1)
               IN  /\ remote' = [remote EXCEPT ![me.owner][me.id] = updated]
                   /\ inflight' = [inflight EXCEPT ![p].pc = "update_save",
                                                   ![p].updated_task = updated]
            /\ rev' = rev + 1
            /\ UNCHANGED <<tasks, last>>

UpdateSave(p) ==
    /\ inflight[p].pc = "update_save"
    /\ LET me == inflight[p]
           r == save_task_to_db(tasks, Wire(me.id, me.updated_task), me.local_task,
                                me.owner, TRUE)
       IN  /\ tasks' = r.tasks
           /\ inflight' = Finished(p, r.saved)
           /\ last' = IF r.saved
                      THEN Result("update", me.owner, me.id, "none", <<"update", "write">>)
                      ELSE Result("update", me.owner, me.id, "persist",
                                  <<"update", "write_failed">>)
    /\ UNCHANGED <<remote, rev>>

\* toggle_task_completion, statement by statement
ToggleLookup(p, o, task_id) ==
    /\ inflight[p].pc = "idle"
    /\ GetTask(tasks, task_id, o).exists
    /\ inflight' = Started(p,
          [Begin(p, "toggle", o, task_id) EXCEPT
              !.pc = "toggle_get",
              !.local_task = GetTask(tasks, task_id, o)])
    /\ UNCHANGED <<remote, rev, tasks, last>>

ToggleGet(p) ==
    /\ inflight[p].pc = "toggle_get"
    /\ LET me == inflight[p] IN
       IF ~remote[me.owner][me.id].exists
       THEN /\ inflight' = Finished(p, FALSE)
            /\ last' = Result("toggle", me.owner, me.id, "remote", <<"get_failed">>)
       ELSE /\ inflight' = [inflight EXCEPT ![p].pc = "toggle_update",
                                            ![p].google_task = remote[me.owner][me.id]]
            /\ last' = last
    /\ UNCHANGED <<remote, rev, tasks>>

\* the body carries the etag that was fetched: when the record has changed
\* since, the provider may refuse the write or take it
ToggleUpdate(p) ==
    /\ inflight[p].pc = "toggle_update"
    /\ LET me == inflight[p]
           stale == remote[me.owner][me.id] # me.google_task
       IN  \E refused \in {FALSE, stale} :
           IF refused \/ ~remote[me.owner][me.id].exists
           THEN /\ inflight' = Finished(p, FALSE)
                /\ last' = Result("toggle", me.owner, me.id, "remote",
                                  <<"get", "update_failed">>)
                /\ UNCHANGED <<remote, rev, tasks>>
           ELSE /\ rev < MaxRev
                /\ LET updated == Toggled(me.google_task, me.local_task, rev + 1)
                   IN  /\ remote' = [remote EXCEPT ![me.owner][me.id] = updated]
                       /\ inflight' = [inflight EXCEPT ![p].pc = "toggle_save",
                                                       ![p].updated_task = updated]
                /\ rev' = rev + 1
                /\ UNCHANGED <<tasks, last>>

ToggleSave(p) ==
    /\ inflight[p].pc = "toggle_save"
    /\ LET me == inflight[p]
           r == save_task_to_db(tasks, Wire(me.id, me.updated_task), me.local_task,
                                me.owner, TRUE)
       IN  /\ tasks' = r.tasks
           /\ inflight' = Finished(p, r.saved)
           /\ last' = Result("toggle", me.owner, me.id, "none",
                             IF r.saved THEN <<"get", "update", "write">>
                             ELSE <<"get", "update", "write_failed">>)
    /\ UNCHANGED <<remote, rev>>

\* create_task, statement by statement: the request has a title, the insert
\* returns an id that the account has not held
CreateInsert(p, o) ==
    /\ inflight[p].pc = "idle"
    /\ rev < MaxRev
    /\ \E id \in AccountIds(o) :
          /\ ~remote[o][id].exists /\ ~tasks[id].exists
          /\ LET created == [exists |-> TRUE, title |-> "t1", notes |-> Null,
                              due |-> Null, status |-> "needsAction", rev |-> rev + 1]
             IN  /\ remote' = [remote EXCEPT ![o][id] = created]
                 /\ inflight' = Started(p,
                        [Begin(p, "create", o, id) EXCEPT !.pc = "create_save",
                                                          !.updated_task = created])
    /\ rev' = rev + 1
    /\ UNCHANGED <<tasks, last>>

CreateSave(p) ==
    /\ inflight[p].pc = "create_save"
    /\ LET me == inflight[p]
           r == save_task_to_db(tasks, Wire(me.id, me.updated_task), NoRec,
                                me.owner, TRUE)
       IN  /\ tasks' = r.tasks
           /\ inflight' = Finished(p, r.saved)
           /\ last' = IF r.saved
                      THEN Result("create", me.owner, me.id, "none", <<"insert", "write">>)
                      ELSE Result("create", me.owner, me.id, "persist",
                                  <<"insert", "write_failed">>)
    /\ UNCHANGED <<remote, rev>>

NextConc ==
    \/ UNCHANGED <<agenda, accounts>> /\ \E p \in Procs, o \in Requesters : CreateInsert(p, o)
    \/ UNCHANGED <<agenda, accounts>> /\ \E p \in Procs : CreateSave(p)
    \/ UNCHANGED <<agenda, accounts>> /\ \E p \in Procs, o \in Owners : SyncFetch(p, o)
    \/ UNCHANGED <<agenda, accounts>> /\ \E p \in Procs : SyncUpsert(p)
    \/ UNCHANGED <<agenda, accounts>> /\ \E p \in Procs : SyncReadIds(p)
    \/ UNCHANGED <<agenda, accounts>> /\ \E p \in Procs : SyncTombstone(p)
    \/ UNCHANGED <<agenda, accounts>> /\ \E p \in Procs, o \in Requesters, id \in Ids : UpdateLookup(p, o, id)
    \/ UNCHANGED <<agenda, accounts>> /\ \E p \in Procs : UpdateRemote(p)
    \/ UNCHANGED <<agenda, accounts>> /\ \E p \in Procs : UpdateSave(p)
    \/ UNCHANGED <<agenda, accounts>> /\ \E p \in Procs, o \in Requesters, id \in Ids : ToggleLookup(p, o, id)
    \/ UNCHANGED <<agenda, accounts>> /\ \E p \in Procs : ToggleGet(p)
    \/ UNCHANGED <<agenda, accounts>> /\ \E p \in Procs : ToggleUpdate(p)
    \/ UNCHANGED <<agenda, accounts>> /\ \E p \in Procs : ToggleSave(p)
    \/ UNCHANGED <<agenda, accounts>> /\ \E o \in Owners, id \in Ids : ConcExternalInsert(o, id)
    \/ UNCHANGED <<agenda, accounts>> /\ \E o \in Owners, id \in Ids : ConcExternalDelete(o, id)

\* a request finds the table as earlier requests left it
InitConc ==
    /\ remote \in [Owners -> [Ids -> {NoTask, InitialTask}]]
    /\ \A o \in Owners : \A i \in Ids \ AccountIds(o) : remote[o][i] = NoTask
    /\ rev = 0
    /\ tasks = UpsertAll([i \in Ids |-> NoRec], Collection(remote["u1"], 1), 1,
                         "u1", {}, {}).tasks
    /\ last = Result("init", Null, 0, "none", <<>>)
    /\ inflight = [p \in Procs |-> Idle]
    /\ NoAgenda
    /\ NoUsers

SpecConc == InitConc /\ [][NextConc]_vars

\* ========================================= the paging loop, page by page
\* The while-True loop of sync_tasks with one tasks.list request per step.
\* The provider chooses how many items a page holds; the account may change
\* between two requests.  `obtained` counts the items that the responses held.
Extend_LastPage(all_google_tasks, response) == response.items

\* all_google_tasks.extend(response.get("items", []))
Extend(all_google_tasks, response) == all_google_tasks \o response.items

PagingStart(p, o) ==
    /\ inflight[p].pc = "idle"
    /\ inflight' = Started(p, [Begin(p, "sync", o, 0) EXCEPT !.pc = "list"])
    /\ UNCHANGED <<remote, rev, tasks, last>>

\* one turn of the loop: the request, extend, the new token, `if not
\* page_token: break`
PagingRequest(p) ==
    /\ inflight[p].pc = "list"
    /\ \E page_size \in 1..MaxPageSize :
          LET me == inflight[p]
              response == ListPage(Collection(remote[me.owner], 1), me.page_token,
                                   page_size)
          IN  inflight' = [inflight EXCEPT
                  ![p].all_google_tasks = Extend(@, response),
                  ![p].page_token = response.nextPageToken,
                  ![p].obtained = @ + Len(response.items),
                  ![p].pc = IF response.nextPageToken = 0 THEN "upsert" ELSE "list"]
    /\ UNCHANGED <<remote, rev, tasks, last>>

\* the response is sent and the worker takes the next request
PagingReturn(p) ==
    /\ inflight[p].pc = "done"
    /\ inflight' = [inflight EXCEPT ![p] = Idle]
    /\ UNCHANGED <<remote, rev, tasks, last>>

\* one worker serves the passes here, one after the other
Pagers == {"w1"}

NextPaging ==
    \/ UNCHANGED <<agenda, accounts>> /\ \E p \in Pagers, o \in Requesters : PagingStart(p, o)
    \/ UNCHANGED <<agenda, accounts>> /\ \E p \in Pagers : PagingRequest(p)
    \/ UNCHANGED <<agenda, accounts>> /\ \E p \in Pagers : SyncUpsert(p)
    \/ UNCHANGED <<agenda, accounts>> /\ \E p \in Pagers : SyncReadIds(p)
    \/ UNCHANGED <<agenda, accounts>> /\ \E p \in Pagers : SyncTombstone(p)
    \/ UNCHANGED <<agenda, accounts>> /\ \E p \in Pagers : PagingReturn(p)
    \/ UNCHANGED <<agenda, accounts>> /\ \E o \in Requesters, id \in Ids : ConcExternalInsert(o, id)
    \/ UNCHANGED <<agenda, accounts>> /\ \E o \in Requesters, id \in Ids : ConcExternalDelete(o, id)

\* a request that was accepted is served to its end: every call that a pass
\* makes returns, and the worker thread goes on to its next statement
PassRuns(p) ==
    UNCHANGED <<agenda, accounts>>
        /\ (PagingRequest(p) \/ SyncUpsert(p) \/ SyncReadIds(p) \/ SyncTombstone(p))

SpecPaging ==
    InitConc /\ [][NextPaging]_vars /\ \A p \in Pagers : WF_vars(PassRuns(p))

\* ==================================================== the user consumers
\* users/consumers.py keeps the User table after the messages of the identity
\* service.  A message is held by what the handler reads of it: whether the
\* body decodes and validate_event accepts it, and the payload's id, name,
\* email and vibe_points (Null and NoPoints for a key that is not there).
Messages ==
    [ok : BOOLEAN, id : UserIds \cup {Absent, "not-a-uuid"},
     name : {Null, "n1", "n2"}, email : {Null, "e1"}, vibe_points : {NoPoints, 5}]

\* payload.get("vibe_points", 0)
PointsOr0(payload) == IF payload.vibe_points = NoPoints THEN 0 ELSE payload.vibe_points

\* the defaults of update_or_create as a row
UserRow(payload) ==
    [exists |-> TRUE, name |-> payload.name, email |-> payload.email,
     vibe_points |-> PointsOr0(payload)]

update_or_create_KeepsExisting(tbl, payload, dbOk) ==
    IF payload.id \notin UserIds \/ payload.name = Null \/ ~dbOk
    THEN [users |-> tbl, done |-> FALSE]
    ELSE [users |-> IF tbl[payload.id].exists THEN tbl
                    ELSE [tbl EXCEPT ![payload.id] = UserRow(payload)],
          done |-> TRUE]

\* User.objects.update_or_create(user_id=uuid.UUID(payload["id"]), defaults=...)
\* inside try/except Exception: payload["id"] raises KeyError, uuid.UUID
\* ValueError, a null name IntegrityError (User.name is not nullable)
update_or_create(tbl, payload, dbOk) ==
    IF payload.id \notin UserIds \/ payload.name = Null \/ ~dbOk
    THEN [users |-> tbl, done |-> FALSE]
    ELSE [users |-> [tbl EXCEPT ![payload.id] = UserRow(payload)], done |-> TRUE]

\* the message as `delivered` keeps it
Carried(type, payload) ==
    [type |-> type, id |-> payload.id, name |-> payload.name,
     email |-> payload.email, vibe_points |-> payload.vibe_points]

\* the handlers of user.created and user.updated
Upserted(type) ==
    \E body \in Messages, dbOk \in BOOLEAN :
        IF ~body.ok THEN UNCHANGED <<users, delivered>>
        ELSE LET r == update_or_create(users, body, dbOk)
             IN  /\ users' = r.users
                 /\ delivered' = IF r.done
                                  THEN [delivered EXCEPT ![body.id] = Carried(type, body)]
                                  ELSE delivered

VerisafeUserCreatedEventConsumer_handle_message == Upserted("user.created")

VerisafeUserUpdatedEventConsumer_handle_message == Upserted("user.updated")

\* User.objects.filter(user_id=uuid.UUID(user_id)).delete()
VerisafeUserDeletedEventConsumer_handle_message ==
    \E body \in Messages, dbOk \in BOOLEAN :
        IF ~body.ok \/ body.id \notin UserIds \/ ~dbOk
        THEN UNCHANGED <<users, delivered>>
        ELSE /\ users' = [users EXCEPT ![body.id] = NoUser]
             /\ delivered' = [delivered EXCEPT ![body.id] =
                                 Carried("user.deleted", [body EXCEPT !.name = Null,
                                                                     !.email = Null,
                                                                     !.vibe_points = NoPoints])]

NextUsers ==
    \/ UNCHANGED <<todos, agenda, last>> /\ VerisafeUserCreatedEventConsumer_handle_message
    \/ UNCHANGED <<todos, agenda, last>> /\ VerisafeUserUpdatedEventConsumer_handle_message
    \/ UNCHANGED <<todos, agenda, last>> /\ VerisafeUserDeletedEventConsumer_handle_message

SpecUsers == Init /\ [][NextUsers]_vars

\* ================================================================ claims
Has(trace, e) == \E i \in 1..Len(trace) : trace[i] = e
Before(trace, a, b) ==
    \A j \in 1..Len(trace) : trace[j] = b => \E i \in 1..(j - 1) : trace[i] = a

\* C1: create_task calls the remote insert before any local write, and when
\* the insert call fails the Task table is left exactly as it was (no record
\* for the request exists afterwards).
C1_CreateRemoteFirst ==
    [][last'.op = "create" =>
        /\ Before(last'.trace, "insert", "write")
        /\ (tasks' # tasks => Has(last'.trace, "insert"))
        /\ (last'.err = "remote" =>
                /\ tasks' = tasks
                /\ ~Has(last'.trace, "write")
                /\ remote' = remote)]_vars

C1_Witness ==
    /\ last.op = "create" /\ last.err = "remote"
    /\ last.trace = <<"insert_failed">>
    /\ \E i \in Ids : tasks[i].exists

C4_FetchFailure ==
    [][last'.op = "sync" =>
        /\ (last'.err = "remote" => tasks' = tasks)
        /\ (Has(last'.trace, "list_failed") => last'.err = "remote")
        /\ (Has(last'.trace, "tombstone") => ~Has(last'.trace, "list_failed"))
        /\ ((\E i \in Ids : tasks'[i].deleted /\ ~tasks[i].deleted)
                => last'.err = "none")]_vars

\* the second page request failed while a record of the owner was stored
C4_Witness ==
    /\ last.op = "sync" /\ last.err = "remote"
    /\ last.trace = <<"list", "list_failed">>
    /\ \E i \in Ids : GetTask(tasks, i, last.owner).exists /\ ~tasks[i].deleted

\* C5: a pass that directly follows a pass for the same owner, with no remote
\* change and no other operation in between and with no call raising in
\* either, leaves the Task table as the first pass left it.
C5_Idempotent ==
    [][(CleanSync(last, last'.owner) /\ CleanSync(last', last'.owner))
            => tasks' = tasks]_vars

\* a second pass in a row, over a table with a tombstone and a live record
C5_Witness ==
    /\ CleanSync(last, last.owner) /\ last.again
    /\ \E i, j \in Ids : /\ GetTask(tasks, i, last.owner).exists /\ tasks[i].deleted
                         /\ GetTask(tasks, j, last.owner).exists /\ ~tasks[j].deleted

\* C6: when create_task's remote insert succeeded and the local save failed,
\* a compensating remote delete of the inserted record is attempted and an
\* error is returned.
C6_Compensation ==
    (last.op = "create" /\ Has(last.trace, "write_failed")) =>
        /\ last.err # "none"
        /\ \/ Has(last.trace, "compensating_delete")
           \/ Has(last.trace, "compensating_delete_failed")

\* C7: when delete_task's remote delete fails an error is returned and the
\* Task table is left exactly as it was, the record still present; a delete
\* request changes the table only after the remote delete went through.
C7_DeleteRemoteFirst ==
    [][last'.op = "delete" =>
        /\ (Has(last'.trace, "delete_failed") => last'.err = "remote")
        /\ (last'.err = "remote" =>
                /\ tasks' = tasks
                /\ GetTask(tasks', last'.id, last'.owner).exists)
        /\ (tasks' # tasks =>
                /\ Has(last'.trace, "delete")
                /\ Before(last'.trace, "delete", "local_delete")
                /\ remote[last'.owner][last'.id].exists
                /\ ~remote'[last'.owner][last'.id].exists)]_vars

C7_Witness ==
    /\ last.op = "delete" /\ last.err = "remote"
    /\ last.trace = <<"delete_failed">>
    /\ GetTask(tasks, last.id, last.owner).exists
    /\ remote[last.owner][last.id].exists

\* C8: after a successful delete_task the record is still stored under the
\* same owner and id, with deleted = true.
C8_SoftDelete ==
    (last.op = "delete" /\ last.err = "none") =>
        /\ GetTask(tasks, last.id, last.owner).exists
        /\ tasks[last.id].deleted

\* C9: a successful toggle of a completed record leaves it needsAction with a
\* null completion time; a successful toggle of a record that is not completed
\* leaves it completed with a completion time that is not null.
C9_ToggleSymmetry ==
    [][(last'.op = "toggle" /\ last'.err = "none" /\ Has(last'.trace, "write")) =>
        LET was == tasks[last'.id]
            now == tasks'[last'.id]
        IN  IF was.status = "completed"
            THEN now.status = "needsAction" /\ now.completed = Null
            ELSE now.status = "completed" /\ now.completed # Null]_vars

\* C10: update_task and toggle_task_completion call the remote before any
\* local write; when the remote get or update fails no field of any local
\* record changes (and nothing changed remotely), and the table changes only
\* in a request whose remote update went through.
C10_RemoteFirst ==
    [][last'.op \in {"update", "toggle"} =>
        /\ Before(last'.trace, "update", "write")
        /\ (last'.op = "toggle" => Before(last'.trace, "get", "update"))
        /\ ((Has(last'.trace, "get_failed") \/ Has(last'.trace, "update_failed"))
                => last'.err = "remote")
        /\ (last'.err = "remote" => tasks' = tasks /\ remote' = remote)
        /\ (tasks' # tasks =>
                /\ Has(last'.trace, "update")
                /\ remote'[last'.owner][last'.id].rev = rev'
                /\ rev' = rev + 1)]_vars

\* the remote update of a toggle failed after its get, a record being stored
C10_Witness ==
    /\ last.op = "toggle" /\ last.err = "remote"
    /\ last.trace = <<"get", "update_failed">>
    /\ GetTask(tasks, last.id, last.owner).exists

\* C11: passes for the same owner do not interleave, so that no record that
\* the remote collection holds is marked deleted: every record of the Task
\* table that is deleted is absent from its owner's remote collection.
C11_SyncSerialized ==
    \A i \in Ids :
        (tasks[i].exists /\ tasks[i].deleted) => ~remote[tasks[i].owner][i].exists

\* C12: when an update and a toggle of the same record were served at the
\* same time and both succeeded, the remote record and the local record carry
\* the title of the update and the status of the toggle.
C12_NoLostUpdate ==
    \A p, q \in Procs :
        LET u == inflight[p]
            t == inflight[q]
            toggled == IF t.local_task.status = "completed"
                       THEN "needsAction" ELSE "completed"
        IN  (/\ u.op = "update" /\ u.pc = "done" /\ u.ok
             /\ t.op = "toggle" /\ t.pc = "done" /\ t.ok
             /\ u.owner = t.owner /\ u.id = t.id
             /\ u.overlap /\ t.overlap)
            => /\ remote[u.owner][u.id].title = u.update_data.title
               /\ remote[u.owner][u.id].status = toggled
               /\ tasks[u.id].title = u.update_data.title
               /\ tasks[u.id].status = toggled

\* C13: an item of the remote list that has no id is skipped: the pass returns
\* no error, every other item of the batch has its record, and the tombstone
\* step has run (no live record of the owner is outside the fetched ids).
C13_MalformedSkipped ==
    (last.op = "sync" /\ Has(last.trace, "key_error")) =>
        /\ last.err = "none"
        /\ \A i \in last.fetched \ last.skipped :
              GetTask(tasks, i, last.owner).exists
        /\ current_local_ids(tasks, last.owner) \subseteq last.fetched

\* C14: the listing of an owner's records returns no record with deleted =
\* true (a tombstoned record stays in the table and is left out of the list).
C14_ListingHidesDeleted ==
    \A o \in Owners : \A i \in get_queryset(tasks, o) : ~tasks[i].deleted

\* C15: the body that update_task sends to the remote update holds, for each
\* of title, notes, due and status, the value of the request when the request has
\* the field and the value of the local record otherwise, and a field that the
\* request leaves out keeps its value remotely and locally.
C15_PartialUpdate ==
    [][(last'.op = "update" /\ Has(last'.trace, "update")) =>
        LET req == last'.request
            body == UpdateBody(last'.id, req)
            was == tasks[last'.id]
            there == remote[last'.owner][last'.id]
            Merged(f, old) == IF f = Absent THEN old ELSE f
        IN  /\ body.title = Merged(req.title, was.title)
            /\ body.notes = Merged(req.notes, was.notes)
            /\ body.due = Merged(req.due, was.due)
            /\ body.status = Merged(req.status, was.status)
            /\ (req.title = Absent =>
                    /\ remote'[last'.owner][last'.id].title = there.title
                    /\ tasks'[last'.id].title = was.title)
            /\ (req.status = Absent =>
                    /\ remote'[last'.owner][last'.id].status = there.status
                    /\ tasks'[last'.id].status = was.status)]_vars

PayloadFields(r) == <<r.title, r.notes, r.due, r.status, r.updated, r.completed>>

\* C17: when a sync upsert, an update or a toggle writes a record (creates it
\* or changes one of its fields), the record's etag is, after that write, the
\* etag of the remote payload that was written.
C17_EtagWithFields ==
    [][last'.op \in {"sync", "update", "toggle"} =>
        \A i \in Ids :
            (/\ tasks'[i].exists
             /\ \/ ~tasks[i].exists
                \/ PayloadFields(tasks'[i]) # PayloadFields(tasks[i]))
            => tasks'[i].etag = Etag(remote'[tasks'[i].owner][i].rev)]_vars

\* C18: after a successful create, update or toggle the local record's
\* `updated` is the `updated` of the remote response of that request.
C18_UpdatedFromResponse ==
    [][(/\ last'.op \in {"create", "update", "toggle"}
        /\ last'.err = "none"
        /\ Has(last'.trace, "write")) =>
        tasks'[last'.id].updated
            = Wire(last'.id, remote'[last'.owner][last'.id]).updated]_vars

C20_NotFound ==
    [][(/\ last'.op \in {"update", "toggle", "delete"}
        /\ ~GetTask(tasks, last'.id, last'.owner).exists
        /\ last'.err # "credentials") =>
        /\ last'.err = "not_found"
        /\ last'.trace = <<>>
        /\ tasks' = tasks /\ remote' = remote]_vars

\* C22: a record comes into the Task table only in a create whose remote
\* insert went through (under the id the insert returned) or in a pass that
\* fetched its id from its owner's collection, and it keeps its owner: the id
\* of every record is one the provider returned for its owner.
C22_CreatedFromRemote ==
    [][\A i \in Ids :
        /\ (tasks[i].exists /\ tasks'[i].exists) => tasks'[i].owner = tasks[i].owner
        /\ (tasks'[i].exists /\ ~tasks[i].exists) =>
              LET o == tasks'[i].owner IN
              /\ o = last'.owner
              /\ \/ /\ last'.op = "create" /\ last'.id = i
                    /\ Has(last'.trace, "insert")
                    /\ ~remote[o][i].exists /\ remote'[o][i].exists
                 \/ /\ last'.op = "sync" /\ i \in last'.fetched
                    /\ remote[o][i].exists]_vars

\* a create has stored its record next to one that a pass had found
C22_Witness ==
    /\ last.op = "create" /\ last.err = "none"
    /\ Has(last.trace, "insert") /\ Has(last.trace, "write")
    /\ GetTask(tasks, last.id, last.owner).exists
    /\ \E j \in Ids \ {last.id} : GetTask(tasks, j, last.owner).exists

C27_ToggleGetFirst ==
    [][last'.op = "toggle" =>
        /\ Before(last'.trace, "get", "update")
        /\ Before(last'.trace, "get", "update_failed")
        /\ (Has(last'.trace, "update") =>
                LET was == remote[last'.owner][last'.id]
                    now == remote'[last'.owner][last'.id]
                IN  /\ was.exists /\ now.exists
                    /\ now.title = was.title
                    /\ now.notes = was.notes
                    /\ now.due = was.due)
        /\ (Has(last'.trace, "get_failed") =>
                /\ ~Has(last'.trace, "update")
                /\ ~Has(last'.trace, "update_failed")
                /\ tasks' = tasks /\ remote' = remote)]_vars

\* a toggle went through on a record whose remote title the local copy did
\* not have: the remote title is still there
C27_Witness ==
    /\ last.op = "toggle" /\ last.err = "none"
    /\ last.trace = <<"get", "update", "write">>
    /\ remote[last.owner][last.id].title = "t2"
    /\ remote[last.owner][last.id].status = "completed"

\* C28: a create, an update or a toggle whose remote call went through and
\* whose local save failed returns an error.
C28_PersistFailureReported ==
    (last.op \in {"create", "update", "toggle"} /\ Has(last.trace, "write_failed"))
        => last.err # "none"

\* C25: a pass upserts each fetched record under (owner, id): a record that
\* is there is updated in place, each field taking the payload's value when
\* the payload has the field and keeping its own value when it has not; a
\* record that is not there is inserted with the payload's values.
C25_UpsertMerges ==
    [][(last'.op = "sync" /\ last'.err = "none") =>
        \A i \in last'.fetched \ last'.skipped :
            LET o == last'.owner
                payload == Wire(i, remote[o][i])
                was == GetTask(tasks, i, o)
                now == tasks'[i]
                Merged(new, old) == IF new = Null /\ was.exists THEN old ELSE new
            IN  /\ now.exists /\ now.owner = o
                /\ now.title = Merged(payload.title, was.title)
                /\ now.notes = Merged(payload.notes, was.notes)
                /\ now.due = Merged(payload.due, was.due)
                /\ now.status = Merged(payload.status, was.status)
                /\ now.etag = payload.etag]_vars

\* C21: no request changes the owner or the id of a record that is stored:
\* a record that is in the Task table before and after a step has the owner
\* (and, the table being keyed by it, the id) it had.
C21_KeyImmutable ==
    [][\A i \in Ids :
        (tasks[i].exists /\ tasks'[i].exists) => tasks'[i].owner = tasks[i].owner]_vars

\* C24: when a pass for an owner fetches an id under which another owner has
\* a record, the pass stores a record of its own for the id and the other
\* owner's record is as it was.
C24_KeyedByOwnerAndId ==
    [][(last'.op = "sync" /\ last'.err = "none" /\ last'.lost = {}) =>
        \A i \in last'.fetched :
            (tasks[i].exists /\ tasks[i].owner # last'.owner) =>
                /\ \A j \in Ids : (tasks[j].exists /\ tasks[j].owner # last'.owner)
                                      => tasks'[j] = tasks[j]
                /\ i \notin last'.skipped
                /\ \E j \in Ids : /\ tasks'[j].exists /\ tasks'[j].owner = last'.owner
                                   /\ j = i]_vars

\* the instant that a date-time text stands for, a text without offset being
\* read as UTC: minutes since day 0 and the microseconds within the minute
Denotes(raw_date) ==
    [minutes |-> raw_date.day * 1440
                    + (IF raw_date.shape = "date" THEN 0 ELSE raw_date.minute)
                    - (IF raw_date.shape = "offset" THEN raw_date.offset ELSE 0),
     micro |-> IF raw_date.shape = "date" THEN 0 ELSE raw_date.micro]
WellFormed(raw_date) == raw_date.shape \in {"date", "naive", "offset"}

\* C23: the text that parse_date_time_to_iso_format makes of a bare date, of
\* a date-time without offset (read as UTC) or of a date-time with an offset
\* is the UTC time of the instant, to the millisecond, ending in Z; texts of
\* the three shapes that stand for one instant give one and the same text.
C23_OneFormat ==
    (/\ last.op = "event_update" /\ Has(last.trace, "update")
     /\ WellFormed(last.request.start_time)) =>
        LET raw_date == last.request.start_time
            out == last.body.start
        IN  /\ out.zone = "Z"
            /\ out.hour \in 0..23 /\ out.minute \in 0..59 /\ out.second \in 0..59
            /\ out.milli \in 0..999
            /\ out.day * 1440 + out.hour * 60 + out.minute = Denotes(raw_date).minutes
            /\ out.milli = Denotes(raw_date).micro \div 1000
            /\ \A other \in RawDates :
                  (WellFormed(other) /\ Denotes(other) = Denotes(raw_date))
                      => parse_date_time_to_iso_format(other, clock) = out

\* an update sent the UTC time of a text with an offset, on the day after the
\* one the text names; a bare date and a text without offset stand for the
\* same instant
C23_Witness ==
    /\ last.op = "event_update" /\ last.err = "none"
    /\ last.request.start_time.shape = "offset"
    /\ last.body.start.day = last.request.start_time.day + 1
    /\ \E d, n \in RawDates :
          /\ d.shape = "date" /\ n.shape = "naive"
          /\ Denotes(d) = Denotes(last.request.start_time)
          /\ Denotes(n) = Denotes(last.request.start_time)

\* C29: a listing that was asked to sync and whose credentials lookup or
\* remote fetch failed does not return success.
C29_SyncFailureReported ==
    (/\ last.op \in {"sync", "event_list"}
     /\ \/ Has(last.trace, "list_failed")
        \/ Has(last.trace, "credentials_failed"))
        => last.err # "none"

\* C30: an event update whose request has no start_time (end_time) sends the
\* start_time (end_time) that the Event row holds, and the time is afterwards,
\* remotely and locally, what the row held.
C30_OmittedTimesKept ==
    [][(last'.op = "event_update" /\ Has(last'.trace, "update")) =>
        LET was == events[last'.id]
            req == last'.request
        IN  /\ (req.start_time.shape = "absent" =>
                    /\ to_python(last'.body.start) = was.start_time
                    /\ to_python(calendar'[last'.id].start) = was.start_time
                    /\ events'[last'.id].start_time = was.start_time)
            /\ (req.end_time.shape = "absent" =>
                    /\ to_python(last'.body.end) = was.end_time
                    /\ to_python(calendar'[last'.id].end) = was.end_time
                    /\ events'[last'.id].end_time = was.end_time)]_vars
\* C31: a create or a pass that maps a provider response without notes, due or
\* completion time stores the record (the title being there and the database
\* taking the write), with deleted false; a create whose response has no notes
\* or no due date returns no error and its record is stored.
C31_OptionalFieldsDefaulted ==
    /\ (last.op = "create" /\ Has(last.trace, "insert")
            /\ ~Has(last.trace, "write_failed")) =>
          /\ last.err = "none"
          /\ GetTask(tasks, last.id, last.owner).exists
          /\ ~tasks[last.id].deleted
    /\ (last.op = "sync" /\ last.err = "none") =>
          \A i \in last.fetched \ last.skipped :
              GetTask(tasks, i, last.owner).exists /\ ~tasks[i].deleted
\* C32: a pass whose page requests all return ends its paging loop, runs to
\* its end and returns the number of records that the pages held, all of them
\* being in the list it has gathered.
C32_SyncTerminates ==
    \A p \in Pagers :
        (inflight[p].pc = "list") ~>
            (/\ inflight[p].pc = "done"
             /\ inflight[p].page_token = 0
             /\ last.op = "sync" /\ last.err = "none"
             /\ last.count = inflight[p].obtained
             /\ last.count = Len(inflight[p].all_google_tasks))

\* a pass has gathered two records and returned their number
C32_Witness ==
    \E p \in Pagers :
        /\ inflight[p].pc = "done" /\ inflight[p].op = "sync"
        /\ last.op = "sync" /\ last.count = 2
        /\ inflight[p].obtained = 2
        /\ Cardinality(ItemIds(inflight[p].all_google_tasks)) = 2
\* C33: a record that a create has inserted remotely and stored locally while
\* a pass for the same owner was under way is not marked deleted by that
\* pass: both requests done and the record still in the account, the record
\* is stored and not deleted.
C33_CreateSurvivesSync ==
    \A p, q \in Procs :
        LET c == inflight[p]
            y == inflight[q]
        IN  (/\ c.op = "create" /\ c.pc = "done" /\ c.ok /\ c.overlap
             /\ y.op = "sync" /\ y.pc = "done" /\ y.overlap
             /\ y.owner = c.owner
             /\ remote[c.owner][c.id].exists)
            => /\ GetTask(tasks, c.id, c.owner).exists
               /\ ~tasks[c.id].deleted
\* C34: when a pass for an owner has returned without error, the ids of the
\* owner's records that are not deleted are the ids that the owner's remote
\* collection holds (a record that an earlier pass had tombstoned and that
\* the collection holds again being not deleted again).
C34_Converges ==
    (last.op = "sync" /\ last.err = "none") =>
        current_local_ids(tasks, last.owner)
            = {i \in Ids : remote[last.owner][i].exists}
\* C35: a toggle that returns no error leaves the record's remote status the
\* opposite of what it was remotely before the request, whatever status the
\* local record had.
C35_ToggleFlipsRemote ==
    [][(last'.op = "toggle" /\ last'.err = "none") =>
        LET was == remote[last'.owner][last'.id].status
            now == remote'[last'.owner][last'.id].status
        IN  /\ was \in TASK_STATUSES /\ now \in TASK_STATUSES
            /\ now # was]_vars
\* C36: a listing of the events, with or without the calendar sync, leaves
\* every Event row that is stored exactly as it was (no field changes, no row
\* is deleted), also when the calendar holds another version of the event or
\* holds it no longer; the sync only adds rows.
C36_InsertOnly ==
    [][last'.op = "event_list" =>
        /\ \A i \in EventIds : events[i].exists => events'[i] = events[i]
        /\ \A i \in EventIds :
              (events'[i].exists /\ ~events[i].exists) =>
                  /\ calendar[i].exists
                  /\ last'.trace = <<"list", "insert">>]_vars

\* a sync has run over a row whose event the calendar holds in a later
\* version, and the row is the old one
C36_Witness ==
    /\ last.op = "event_list" /\ last.trace = <<"list", "insert">>
    /\ \E i \in EventIds :
          /\ GetEvent(events, i, last.owner).exists
          /\ calendar[i].exists
          /\ calendar[i].updated = 1 /\ events[i].etag = Etag(0)
          /\ calendar[i].summary = "s2" /\ events[i].summary = "s1"
\* C37: whatever messages the consumers have handled, a User row exists for
\* an id exactly when the last message carried out for the id was a
\* user.created or a user.updated, and the row's fields are then the values
\* of that message's payload (created and updated both insert or overwrite);
\* after a user.deleted, for a stored or an absent user, there is no row.
C37_UsersFollowMessages ==
    \A u \in UserIds :
        /\ users[u].exists <=> delivered[u].type \in {"user.created", "user.updated"}
        /\ users[u].exists => users[u] = UserRow(delivered[u])
        /\ delivered[u].type # "none" => delivered[u].id = u

\* one user is stored as a user.created without vibe_points gave it, the
\* other has no row after a user.deleted
C37_Witness ==
    /\ users["a"].exists /\ delivered["a"].type = "user.created"
    /\ users["a"].name = "n2" /\ users["a"].vibe_points = 0
    /\ ~users["b"].exists /\ delivered["b"].type = "user.deleted"
====
